---------------------------- MODULE Spec2Model ----------------------------
(***************************************************************************)
(* One test run of the START harness: the runner (test.py), the mission    *)
(* monitor (mission.py: issue, execute, the STATUSTEXT handler, the        *)
(* SIGALRM deadline), the simulator lifecycle (sitl.py) and the attack     *)
(* controller (attack.py / attacker.py).                                   *)
(*                                                                         *)
(* The repository holds two revisions of the program.  rev = "th" is the   *)
(* harness at the top of src/ (mission.py, sitl.py, test.py) with          *)
(* src/src/start_th/attacker.py; rev = "core" is the start_core package    *)
(* (src/src/start_core/).  The start_core revision refers to a few names   *)
(* that its refactoring left unbound on every execution (`vehicle` for     *)
(* `conn` in Mission.execute, `self.__process` for `process` in            *)
(* SITL.launch, `Oracle(...)` for `Oracle.build(...)`, `self.__commands`   *)
(* for `self.commands` in Mission.__len__, and                             *)
(* `self.__expected_num_wps_visited`, whose value is never used); those    *)
(* are read as the object they evidently denote, since otherwise the       *)
(* revision has no                                                         *)
(* behaviour at all.  Its Mission class declares its fields with attr.ib   *)
(* under a disabled attr.s decorator and is constructed as                 *)
(* Mission(vehicle, cmds, home): it is read as the attrs class it          *)
(* declares, whose fields are the constructor's arguments themselves.      *)
(* Failures that depend on the input (on_ground read                       *)
(* before assignment in Oracle.build) are modelled as the exception they   *)
(* raise.                                                                  *)
(*                                                                         *)
(* The main thread is a program counter pc; dronekit's receive thread      *)
(* runs the STATUSTEXT handler (hpc); the alarm signal may interrupt the   *)
(* main thread between any two steps while it is armed.  Everything the    *)
(* vehicle, the operating system and the attack process decide is an       *)
(* input drawn where the code reads it.                                    *)
(***************************************************************************)
EXTENDS Integers, Sequences, FiniteSets, TLC

(* ------------------------------ bounds -------------------------------- *)

\* Telemetry events counted by the handler in one run.
MaxVisited == 2

\* Largest heartbeat age (seconds) the link reports.
MaxHeartbeatAge == 2

\* Process groups one controller launches when its methods are called in
\* any order.
MaxLaunches == 2

\* Commands in a list (a mission, the list given to the constructor).
MaxCmds == 3

\* Calls of Mission.issue on one Mission.
MaxIssues == 2

\* Largest time limit (seconds) and speed-up factor execute is called with,
\* besides those of the runs.
MaxTimeLimit == 7
MaxSpeedup == 4

\* Characters in a reply line of the attack process, besides the lines
\* named below, and calls of Attacker.was_successful.
MaxReplyLen == 3
MaxChecks == 1

\* Calls of Attacker.start that write their line.
MaxStarts == 1

\* Telemetry events of one run that the vehicle emits while nothing
\* listens.
MaxUnheard == 1

\* Largest latitude, longitude and altitude of the grid of positions the
\* distance is computed on.
MaxCoord == 2

(* ------------------------- program constants -------------------------- *)

MAV_CMD_NAV_WAYPOINT == 16
MAV_CMD_NAV_RETURN_TO_LAUNCH == 20
MAV_CMD_NAV_LAND == 21
\* Any other command id (MAV_CMD_NAV_TAKEOFF), an opaque step for the oracle.
MAV_CMD_NAV_TAKEOFF == 22

\* Oracle.max_distance / the literal of the distance check, in millimetres
\* (3.0 metres).
MaxDistanceMm == 3000

\* The +10 seconds added to the rescaled time limit.
StartupJitter == 10

\* liveness_timeout / timeout_liveness default of the runner (seconds).
TimeoutHeartbeat == 1

VehicleKinds == {"APMrover2", "ArduPlane", "ArduCopter"}

Revs == {"core", "th"}

\* The verdict reasons, as the code spells them.
ReasonUnresponsive == "vehicle became unresponsive."
ReasonWaypoints == "vehicle didn't visit all of the WPs"
ReasonTooFar == "vehicle was too far away from expected end position"
ReasonTimeout == "timeout occurred"

\* The prefixes on_waypoint tests with text.startswith; "other" stands for
\* any text that starts with none of them.
ReachedPrefixes == {"Reached waypoint #", "Reached command #", "Skipping invalid cmd"}
TerminalPrefixes == {"Reached destination", "Mission Complete"}
CopterTerminalPrefix == "Disarming motors"
Texts == ReachedPrefixes \cup TerminalPrefixes \cup {CopterTerminalPrefix, "other"}

(* ------------------------------ positions ----------------------------- *)

\* A LocationGlobal.  One unit of lat/lon is 1/111319.5 degree, so that the
\* factor 1.113195e5 of helper.distance maps one unit to one metre.
Loc(lat, lon, alt) == [lat |-> lat, lon |-> lon, alt |-> alt]

Home == Loc(0, 0, 0)

\* The positions the vehicle reports in a run: at home and 3 m north of it.
RunPositions == {Loc(0, 0, 0), Loc(3, 0, 0)}

RECURSIVE SqrtSearch(_, _, _)
\* The largest r in lo..hi with r*r <= n (lo*lo <= n).
SqrtSearch(n, lo, hi) ==
    IF lo >= hi THEN lo
    ELSE LET mid == (lo + hi + 1) \div 2
         IN IF mid * mid <= n THEN SqrtSearch(n, mid, hi)
                              ELSE SqrtSearch(n, lo, mid - 1)

\* math.sqrt, to the integer below.
ISqrt(n) == SqrtSearch(n, 0, 46340)

\* A distance that counts the difference of altitude in.
distanceWithAltitude(loc_x, loc_y) ==
    LET d_lat == loc_y.lat - loc_x.lat
        d_long == loc_y.lon - loc_x.lon
        d_alt == loc_y.alt - loc_x.alt
    IN ISqrt(((d_lat * d_lat) + (d_long * d_long) + (d_alt * d_alt)) * 1000000)

\* helper.distance: sqrt(d_lat^2 + d_long^2) * 1.113195e5 metres, here in
\* millimetres (rounded down); the altitude is not read.
distance(loc_x, loc_y) ==
    LET d_lat == loc_y.lat - loc_x.lat
        d_long == loc_y.lon - loc_x.lon
    IN ISqrt(((d_lat * d_lat) + (d_long * d_long)) * 1000000)

(* ------------------------------- oracle ------------------------------- *)

Cmd(id, x, y, z) == [command |-> id, x |-> x, y |-> y, z |-> z]

\* The state of the loop of Oracle.build / Mission.__generate_oracle.
\* on_ground is "unbound" until assigned in the start_core revision, whose
\* build never initialises it; raised names the exception of reading it.
OracleLoopInit(r) ==
    [num_wps |-> 0, end_position |-> Home,
     on_ground |-> IF r = "core" THEN "unbound" ELSE "true",
     stopped |-> FALSE, raised |-> "none"]

\* One iteration in which RETURN_TO_LAUNCH ends the loop for every vehicle
\* kind.
OracleStepRtlStopsAll(s, command, vehicle, enable_workaround) ==
    IF s.stopped THEN s
    ELSE IF command.command = MAV_CMD_NAV_WAYPOINT
    THEN [s EXCEPT !.end_position = Loc(command.x, command.y, command.z),
                   !.on_ground = "false",
                   !.num_wps = @ + 1]
    ELSE IF command.command = MAV_CMD_NAV_RETURN_TO_LAUNCH
    THEN [s EXCEPT !.end_position = Home,
                   !.on_ground = "true",
                   !.num_wps = @ + 1,
                   !.stopped = TRUE]
    ELSE IF command.command = MAV_CMD_NAV_LAND /\ enable_workaround
    THEN IF s.on_ground = "unbound"
         THEN [s EXCEPT !.stopped = TRUE, !.raised = "UnboundLocalError"]
         ELSE IF s.on_ground = "true"
         THEN [s EXCEPT !.stopped = TRUE]
         ELSE [s EXCEPT !.num_wps = @ + 1]
    ELSE [s EXCEPT !.num_wps = @ + 1]

\* One iteration of the loop over the link's commands.
OracleStep(s, command, vehicle, enable_workaround) ==
    IF s.stopped THEN s
    ELSE IF command.command = MAV_CMD_NAV_WAYPOINT
    THEN [s EXCEPT !.end_position = Loc(command.x, command.y, command.z),
                   !.on_ground = "false",
                   !.num_wps = @ + 1]
    ELSE IF command.command = MAV_CMD_NAV_RETURN_TO_LAUNCH
    THEN [s EXCEPT !.end_position = Home,
                   !.on_ground = "true",
                   !.num_wps = @ + 1,
                   !.stopped = (vehicle = "ArduCopter")]
    ELSE IF command.command = MAV_CMD_NAV_LAND /\ enable_workaround
    THEN IF s.on_ground = "unbound"
         THEN [s EXCEPT !.stopped = TRUE, !.raised = "UnboundLocalError"]
         ELSE IF s.on_ground = "true"
         THEN [s EXCEPT !.stopped = TRUE]
         ELSE [s EXCEPT !.num_wps = @ + 1]
    ELSE [s EXCEPT !.num_wps = @ + 1]

RECURSIVE OracleLoop(_, _, _, _)
OracleLoop(s, cmds, vehicle, enable_workaround) ==
    IF cmds = << >> THEN s
    ELSE OracleLoop(OracleStep(s, Head(cmds), vehicle, enable_workaround),
                    Tail(cmds), vehicle, enable_workaround)

\* The oracle without the decrement for ArduCopter.
OracleBuildNoDecrement(cmds, vehicle, enable_workaround, r) ==
    LET s == OracleLoop(OracleLoopInit(r), cmds, vehicle, enable_workaround)
    IN [num_waypoints_visited |-> s.num_wps,
        end_position |-> s.end_position,
        max_distance |-> MaxDistanceMm,
        raised |-> s.raised]

\* The oracle with the decrement applied to every vehicle kind.
OracleBuildDecrementAll(cmds, vehicle, enable_workaround, r) ==
    LET s == OracleLoop(OracleLoopInit(r), cmds, vehicle, enable_workaround)
    IN [num_waypoints_visited |-> s.num_wps - 1,
        end_position |-> s.end_position,
        max_distance |-> MaxDistanceMm,
        raised |-> s.raised]

\* Oracle.build(conn, vehicle, home, enable_workaround), and
\* Mission.__generate_oracle of the th revision: the loop, then the
\* decrement for ArduCopter.
OracleBuild(cmds, vehicle, enable_workaround, r) ==
    LET s == OracleLoop(OracleLoopInit(r), cmds, vehicle, enable_workaround)
    IN [num_waypoints_visited |->
            IF vehicle = "ArduCopter" THEN s.num_wps - 1 ELSE s.num_wps,
        end_position |-> s.end_position,
        max_distance |-> MaxDistanceMm,
        raised |-> s.raised]

NoOracle ==
    [num_waypoints_visited |-> 0, end_position |-> Home,
     max_distance |-> MaxDistanceMm, raised |-> "unset"]

\* The missions run in this model: commands as Mission.from_file parses them.
RunMissions ==
    { << Cmd(MAV_CMD_NAV_WAYPOINT, 4, 0, 0) >>,
      << Cmd(MAV_CMD_NAV_TAKEOFF, 0, 0, 0), Cmd(MAV_CMD_NAV_WAYPOINT, 3, 0, 0),
         Cmd(MAV_CMD_NAV_RETURN_TO_LAUNCH, 0, 0, 0) >>,
      << Cmd(MAV_CMD_NAV_LAND, 0, 0, 0), Cmd(MAV_CMD_NAV_WAYPOINT, 4, 0, 0) >> }

\* (time_limit, speedup) as the runner is called: the call of foo.main, and
\* a time limit of zero at the default speedup.
RunLimits ==
    { [time_limit |-> 300, speedup |-> 10],
      [time_limit |-> 0, speedup |-> 1] }

(* ------------------------------- state -------------------------------- *)

VARIABLES
    rev,                    \* which revision of the program runs
    args,                   \* the arguments of the run (never change)
    ctor_list,              \* the list object given to the Mission constructor
    m_commands,             \* the Mission's commands, as read through the Mission
    pc,                     \* the main thread's position
    ret,                    \* the value a return statement has produced
    exc,                    \* the exception propagating in the main thread
    alarm,                  \* the SIGALRM timer: "unset", "armed", "fired"
    alarm_secs,             \* the seconds given to signal.alarm
    attacker,               \* Attacker's fields
    written,                \* the lines written to the attack channel
    atk_kills,              \* SIGKILLs sent to the attack process group
    atk_groups,             \* signals received by each attack group launched
    checked,                \* was_successful: lines read, the last one, the result
    sitl_process,           \* SITL's process handle
    sim_kills,              \* SIGTERMs sent to the simulator process group
    sim_groups,             \* signals received by each simulator group launched
    vehicle,                \* the runner's vehicle: "None", "connected", "closed"
    vcmds,                  \* the link's command list (conn.commands)
    uploaded,               \* the command list the vehicle holds
    synced,                 \* the link reports the list synchronized
    oracle,                 \* Mission.oracle
    armed_req,              \* conn.armed = True was assigned
    mode,                   \* conn.mode
    start_msgs,             \* the mission-start messages sent
    mission_complete,       \* mission_complete[0]
    actual_num_wps_visited, \* actual_num_wps_visited[0]
    unpacked,               \* the cell was rebound to the bare integer
    pos_last,               \* execute's pos_last
    h_pos_last,             \* on_waypoint's own local pos_last
    stale_at_exit,          \* the heartbeat was stale when the flag ended the loop
    dist,                   \* execute's dist, -1 while unassigned
    listener,               \* on_waypoint is a STATUSTEXT listener of the link
    hpc,                    \* the handler's position in dronekit's thread
    handler_error,          \* an exception was raised inside the handler
    trace                   \* the operations performed, in order

cfgVars == << rev, args, ctor_list, m_commands >>
ctlVars == << pc, ret, exc >>
alarmVars == << alarm, alarm_secs >>
atkVars == << attacker, written, atk_kills, atk_groups, checked >>
simVars == << sitl_process, sim_kills, sim_groups >>
linkVars == << vcmds, uploaded, synced, oracle, armed_req, mode, start_msgs >>
monVars == << mission_complete, actual_num_wps_visited, unpacked, pos_last,
              h_pos_last, stale_at_exit, dist, listener, hpc, handler_error >>
vars == << cfgVars, ctlVars, alarmVars, atkVars, simVars, vehicle, linkVars,
           monVars, trace >>

NoRet == [set |-> FALSE, passed |-> FALSE, reason |-> "unset"]
Verdict(passed, reason) == [set |-> TRUE, passed |-> passed, reason |-> reason]

\* Attacker.__init__: nothing is acquired.
AttackerInit ==
    [fn_log |-> "None", fn_mav |-> "None", connection |-> "None",
     socket |-> "None", process |-> "None"]

NoLoc == [lat |-> -1, lon |-> -1, alt |-> -1]

\* was_successful has not been called.
NoCheck == [reads |-> 0, reply |-> << >>, result |-> FALSE]

\* Nothing has been acquired, armed or observed: the fields of a freshly
\* constructed Attacker and SITL, no timer, no verdict, no monitor state
\* but the oracle and execute's pos_last.
NothingAcquired ==
    /\ ret = NoRet
    /\ exc = "none"
    /\ alarm = "unset"
    /\ alarm_secs = 0
    /\ attacker = AttackerInit
    /\ written = << >>
    /\ atk_kills = 0
    /\ atk_groups = << >>
    /\ checked = NoCheck
    /\ sitl_process = "None"
    /\ sim_kills = 0
    /\ sim_groups = << >>
    /\ vehicle = "None"
    /\ uploaded = << >>
    /\ synced = FALSE
    /\ armed_req = FALSE
    /\ mode = "other"
    /\ start_msgs = << >>
    /\ mission_complete = FALSE
    /\ actual_num_wps_visited = 0
    /\ unpacked = FALSE
    /\ h_pos_last = NoLoc
    /\ stale_at_exit = FALSE
    /\ dist = -1
    /\ listener = FALSE
    /\ hpc = "idle"
    /\ handler_error = FALSE
    /\ trace = << >>

\* The same, with no oracle computed and pos_last unassigned.
Idle ==
    /\ NothingAcquired
    /\ oracle = NoOracle
    /\ pos_last = NoLoc

\* The state when the runner is entered: the Mission is constructed
\* (Mission.from_file), vehicle = None, an Attacker is constructed when an
\* attack is given, nothing runs.
Init ==
    /\ rev \in Revs
    /\ args \in [vehicle : VehicleKinds, attack : BOOLEAN, check_wps : BOOLEAN,
                 enable_workaround : BOOLEAN, limits : RunLimits,
                 commands : RunMissions]
    /\ ctor_list = args.commands
    /\ m_commands = args.commands
    /\ pc = IF rev = "core" THEN "sitl_start" ELSE "prepare"
    /\ vcmds = << >>
    /\ Idle

(* --------------------------- control flow ----------------------------- *)

TimeoutName == "TimeoutException"

\* An exception that leaves the runner at once, as from a statement placed
\* outside the try statement.
RaiseToCaller(r, e) == "done"

\* Where an exception raised inside the runner's try body goes.  In the
\* start_core runner the body is inside `with sitl.launch(...)`, whose exit
\* runs first; in the th runner a timeout goes to the except clause and
\* anything else to the finally clause.
RaiseTo(r, e) ==
    IF r = "core" THEN "sitl_exit"
    ELSE IF e = TimeoutName THEN "except" ELSE "fin_attacker"

\* Where `return mission.execute(...)` goes.
ReturnTo(r) == IF r = "core" THEN "sitl_exit" ELSE "fin_attacker"

\* The order of the acquisitions in the try body.
AfterPrepare(r) == IF r = "core" THEN "connect" ELSE "sitl_start"
AfterSitlStart(r) == IF r = "core" THEN "prepare" ELSE "connect"

\* Where the finally clause ends: the th runner stops the simulator last.
AfterVehicleClose(r) == IF r = "core" THEN "done" ELSE "fin_sitl"

Log(e) == trace' = Append(trace, e)

\* subprocess.Popen(..., preexec_fn=os.setsid): a new process group, which
\* has received no signal.  The handle that is stored refers to it.
Launch(groups) == Append(groups, 0)

\* os.killpg(handle.pid, sig): the group the handle refers to, which is the
\* one launched last, receives the signal.
Signal(groups) == [groups EXCEPT ![Len(groups)] = @ + 1]

RECURSIVE SignalTimes(_, _)
SignalTimes(groups, n) ==
    IF n = 0 THEN groups ELSE SignalTimes(Signal(groups), n - 1)
LogAll(es) == trace' = trace \o es

(* --------------------------- SimulatorProcess ------------------------- *)

\* SITL.start (th) / the Popen of SITL.launch (start_core): a new process
\* group; the handle is stored.
SitlStart ==
    /\ pc = "sitl_start"
    /\ sitl_process' = "set"
    /\ sim_groups' = Launch(sim_groups)
    /\ Log("sitl.start")
    /\ pc' = AfterSitlStart(rev)
    /\ UNCHANGED << cfgVars, ret, exc, alarmVars, atkVars, sim_kills, vehicle,
                    linkVars, monVars >>

\* The exit of `with sitl.launch(...)` (start_core): if process: os.killpg.
\* kill_fails: the process group no longer exists and killpg raises.
SitlExit ==
    /\ pc = "sitl_exit"
    /\ \E kill_fails \in BOOLEAN :
         IF sitl_process # "None" /\ kill_fails
         THEN /\ exc' = "OSError"
              /\ ret' = NoRet
              /\ pc' = "fin_attacker"
              /\ Log("sitl.stop")
              /\ UNCHANGED << sim_kills, sim_groups >>
         ELSE /\ IF sitl_process # "None"
                 THEN /\ sim_kills' = sim_kills + 1
                      /\ sim_groups' = Signal(sim_groups)
                      /\ LogAll(<< "sitl.stop", "sim_kill" >>)
                 ELSE /\ Log("sitl.stop")
                      /\ UNCHANGED << sim_kills, sim_groups >>
              /\ pc' = IF exc = TimeoutName THEN "except" ELSE "fin_attacker"
              /\ UNCHANGED << ret, exc >>
    /\ UNCHANGED << cfgVars, alarmVars, atkVars, sitl_process, vehicle,
                    linkVars, monVars >>

\* SITL.stop (th): if self.__process: os.killpg(pid, SIGTERM);
\* self.__process = None.
SitlStop(process, kill_fails) ==
    IF process = "None"
    THEN [process |-> "None", ops |-> << >>, raised |-> "none"]
    ELSE IF kill_fails
    THEN [process |-> process, ops |-> << >>, raised |-> "OSError"]
    ELSE [process |-> "None", ops |-> << "sim_kill" >>, raised |-> "none"]

(* --------------------------- AttackController ------------------------- *)

\* Attacker.prepare: the scratch files, the process group, the socket, and,
\* unless the connection is refused, the channel.
AttackerPrepared(a, refused) ==
    [a EXCEPT !.fn_log = "set", !.fn_mav = "set", !.process = "set",
              !.socket = "set",
              !.connection = IF refused THEN a.connection ELSE "set"]

\* A stop that writes EXIT and closes the channel but keeps the reference
\* to it.
AttackerStopKeepsChannel(a, write_fails, kill_fails) ==
    LET s0 == [a |-> a, ops |-> << >>, raised |-> "none"]
        s1 == IF a.connection = "None" THEN s0
              ELSE IF write_fails THEN [s0 EXCEPT !.raised = "IOError"]
              ELSE [s0 EXCEPT !.ops = << "EXIT", "connection.close" >>]
        s2 == IF s1.raised # "none" \/ s1.a.socket = "None" THEN s1
              ELSE [s1 EXCEPT !.a.socket = "None",
                              !.ops = Append(@, "socket.close")]
        s3 == IF s2.raised # "none" \/ s2.a.process = "None" THEN s2
              ELSE IF kill_fails THEN [s2 EXCEPT !.raised = "OSError"]
              ELSE [s2 EXCEPT !.a.process = "None",
                              !.ops = Append(@, "atk_kill")]
    IN IF s3.raised # "none" THEN s3
       ELSE [s3 EXCEPT !.a.fn_log = "None", !.a.fn_mav = "None"]

\* Attacker.stop.  write_fails: writing/flushing EXIT raises (the channel is
\* broken); kill_fails: os.killpg raises (the group is gone).  Nothing
\* catches either, so the statements after the failing one do not run.
AttackerStop(a, write_fails, kill_fails) ==
    LET s0 == [a |-> a, ops |-> << >>, raised |-> "none"]
        s1 == IF a.connection = "None" THEN s0
              ELSE IF write_fails THEN [s0 EXCEPT !.raised = "IOError"]
              ELSE [s0 EXCEPT !.a.connection = "None",
                              !.ops = << "EXIT", "connection.close" >>]
        s2 == IF s1.raised # "none" \/ s1.a.socket = "None" THEN s1
              ELSE [s1 EXCEPT !.a.socket = "None",
                              !.ops = Append(@, "socket.close")]
        s3 == IF s2.raised # "none" \/ s2.a.process = "None" THEN s2
              ELSE IF kill_fails THEN [s2 EXCEPT !.raised = "OSError"]
              ELSE [s2 EXCEPT !.a.process = "None",
                              !.ops = Append(@, "atk_kill")]
    IN IF s3.raised # "none" THEN s3
       ELSE [s3 EXCEPT !.a.fn_log = "None", !.a.fn_mav = "None"]

Count(seq, e) == Cardinality({i \in DOMAIN seq : seq[i] = e})

\* A line of text is the sequence of its characters.
Whitespace == {" ", "\n"}

\* str.strip(): without the leading and trailing whitespace.
Strip(text) ==
    LET kept == {i \in DOMAIN text : text[i] \notin Whitespace}
    IN IF kept = {} THEN << >>
       ELSE SubSeq(text, CHOOSE i \in kept : \A j \in kept : i <= j,
                         CHOOSE i \in kept : \A j \in kept : j <= i)

\* sub in text
Contains(text, sub) ==
    \E i \in 1 .. (Len(text) - Len(sub) + 1) :
        SubSeq(text, i, i + Len(sub) - 1) = sub

\* A result that tests how the reply starts instead of what it contains.
WasSuccessfulStartsWith(line) ==
    LET reply == Strip(line)
    IN ~(Len(reply) >= 2 /\ SubSeq(reply, 1, 2) = << "N", "O" >>)

\* was_successful: reply = readline().strip(); return "NO" not in reply
WasSuccessful(line) ==
    LET reply == Strip(line)
    IN ~Contains(reply, << "N", "O" >>)

(* -------------------------------- Runner ------------------------------ *)

\* if attacker: attacker.prepare()
RunnerPrepare ==
    /\ pc = "prepare"
    /\ IF args.attack
       THEN \E refused \in BOOLEAN :
              /\ attacker' = AttackerPrepared(attacker, refused)
              /\ atk_groups' = Launch(atk_groups)
              /\ LogAll(IF refused THEN << "attacker.prepare" >>
                        ELSE << "attacker.prepare", "attacker.connected" >>)
              /\ IF refused
                 THEN /\ exc' = "ConnectionRefusedError"
                      /\ pc' = RaiseTo(rev, "ConnectionRefusedError")
                 ELSE /\ exc' = exc
                      /\ pc' = AfterPrepare(rev)
       ELSE /\ pc' = AfterPrepare(rev)
            /\ UNCHANGED << attacker, atk_groups, exc, trace >>
    /\ UNCHANGED << cfgVars, ret, alarmVars, written, atk_kills, checked,
                    simVars, vehicle, linkVars, monVars >>

\* vehicle = dronekit.connect(...): raises when no heartbeat arrives in time.
RunnerConnect ==
    /\ pc = "connect"
    /\ \E ok \in BOOLEAN :
         IF ok
         THEN /\ vehicle' = "connected"
              /\ Log("connect")
              /\ pc' = "wait_ready"
              /\ exc' = exc
         ELSE /\ exc' = "APIException"
              /\ pc' = RaiseTo(rev, "APIException")
              /\ UNCHANGED << vehicle, trace >>
    /\ UNCHANGED << cfgVars, ret, alarmVars, atkVars, simVars, linkVars, monVars >>

\* vehicle.wait_ready(True, timeout=...): raises when the timeout passes.
RunnerWaitReady ==
    /\ pc = "wait_ready"
    /\ \E ok \in BOOLEAN :
         IF ok
         THEN /\ pc' = "attack_start"
              /\ exc' = exc
         ELSE /\ exc' = "APIException"
              /\ pc' = RaiseTo(rev, "APIException")
    /\ UNCHANGED << cfgVars, ret, alarmVars, atkVars, simVars, vehicle,
                    linkVars, monVars, trace >>

\* A runner that asks the attack process for its result after starting it.
RunnerAttackStartAndCheck ==
    /\ pc = "attack_start"
    /\ IF args.attack
       THEN \E write_fails \in BOOLEAN :
              IF write_fails
              THEN /\ exc' = "IOError"
                   /\ pc' = RaiseTo(rev, "IOError")
                   /\ UNCHANGED << written, trace >>
              ELSE /\ written' = written \o << "START", "CHECK" >>
                   /\ Log("START")
                   /\ pc' = "e_alarm"
                   /\ exc' = exc
       ELSE /\ pc' = "e_alarm"
            /\ UNCHANGED << written, exc, trace >>
    /\ UNCHANGED << cfgVars, ret, alarmVars, attacker, atk_kills, atk_groups,
                    checked, simVars, vehicle, linkVars, monVars >>

\* if attacker: attacker.start(): write START, flush.
RunnerAttackStart ==
    /\ pc = "attack_start"
    /\ IF args.attack
       THEN \E write_fails \in BOOLEAN :
              IF write_fails
              THEN /\ exc' = "IOError"
                   /\ pc' = RaiseTo(rev, "IOError")
                   /\ UNCHANGED << written, trace >>
              ELSE /\ written' = Append(written, "START")
                   /\ Log("START")
                   /\ pc' = "e_alarm"
                   /\ exc' = exc
       ELSE /\ pc' = "e_alarm"
            /\ UNCHANGED << written, exc, trace >>
    /\ UNCHANGED << cfgVars, ret, alarmVars, attacker, atk_kills, atk_groups,
                    checked, simVars, vehicle, linkVars, monVars >>

\* except TimeoutException / mission.TimeoutError:
\*     return (False, "timeout occurred")
RunnerExcept ==
    /\ pc = "except"
    /\ ret' = Verdict(FALSE, ReasonTimeout)
    /\ exc' = "none"
    /\ pc' = "fin_attacker"
    /\ UNCHANGED << cfgVars, alarmVars, atkVars, simVars, vehicle, linkVars,
                    monVars, trace >>

\* finally: if attacker: attacker.stop()
RunnerFinAttacker ==
    /\ pc = "fin_attacker"
    /\ IF args.attack
       THEN \E write_fails \in BOOLEAN, kill_fails \in BOOLEAN :
              LET r == AttackerStop(attacker, write_fails, kill_fails) IN
              /\ attacker' = r.a
              /\ written' = written \o SelectSeq(r.ops, LAMBDA o : o = "EXIT")
              /\ atk_kills' = atk_kills + Count(r.ops, "atk_kill")
              /\ atk_groups' = SignalTimes(atk_groups, Count(r.ops, "atk_kill"))
              /\ LogAll(<< "attacker.stop" >> \o r.ops)
              /\ IF r.raised # "none"
                 THEN /\ exc' = r.raised
                      /\ ret' = NoRet
                      /\ pc' = "done"
                 ELSE /\ pc' = "fin_vehicle"
                      /\ UNCHANGED << ret, exc >>
       ELSE /\ pc' = "fin_vehicle"
            /\ UNCHANGED << attacker, written, atk_kills, atk_groups, ret, exc,
                            trace >>
    /\ UNCHANGED << cfgVars, alarmVars, checked, simVars, vehicle, linkVars,
                    monVars >>

\* finally: if vehicle: vehicle.close()
RunnerFinVehicle ==
    /\ pc = "fin_vehicle"
    /\ IF vehicle # "None"
       THEN /\ vehicle' = "closed"
            /\ Log("vehicle.close")
       ELSE UNCHANGED << vehicle, trace >>
    /\ pc' = AfterVehicleClose(rev)
    /\ UNCHANGED << cfgVars, ret, exc, alarmVars, atkVars, simVars, linkVars,
                    monVars >>

\* finally: self.__sitl.stop()  (th)
RunnerFinSitl ==
    /\ pc = "fin_sitl"
    /\ \E kill_fails \in BOOLEAN :
         LET r == SitlStop(sitl_process, kill_fails) IN
         /\ sitl_process' = r.process
         /\ sim_kills' = sim_kills + Count(r.ops, "sim_kill")
         /\ sim_groups' = SignalTimes(sim_groups, Count(r.ops, "sim_kill"))
         /\ LogAll(<< "sitl.stop" >> \o r.ops)
         /\ IF r.raised # "none"
            THEN /\ exc' = r.raised
                 /\ ret' = NoRet
            ELSE UNCHANGED << ret, exc >>
    /\ pc' = "done"
    /\ UNCHANGED << cfgVars, alarmVars, atkVars, vehicle, linkVars, monVars >>

(* ---------------------------- Mission.execute ------------------------- *)

\* The rescaling with the 10 seconds added before the division.
EffectiveTimeLimitJitterInside(time_limit, speedup) ==
    IF speedup > 1 THEN (time_limit + StartupJitter) \div speedup
    ELSE time_limit

\* The rescaled time limit: int(time_limit / speedup) + 10 when speedup > 1.
EffectiveTimeLimit(time_limit, speedup) ==
    IF speedup > 1 THEN (time_limit \div speedup) + StartupJitter
    ELSE time_limit

\* signal.signal(SIGALRM, timeout_handler); signal.alarm(time_limit).
\* alarm(0) arms nothing.
ExecArmAlarm ==
    /\ pc = "e_alarm"
    /\ alarm_secs' = EffectiveTimeLimit(args.limits.time_limit, args.limits.speedup)
    /\ alarm' = IF alarm_secs' > 0 THEN "armed" ELSE "unset"
    /\ Log("execute")
    /\ pc' = "e_wait_armable"
    /\ UNCHANGED << cfgVars, ret, exc, atkVars, simVars, vehicle, linkVars, monVars >>

\* while not conn.is_armable: time.sleep(0.2)
ExecWaitArmable ==
    /\ pc = "e_wait_armable"
    /\ \E is_armable \in BOOLEAN :
         IF is_armable
         THEN pc' = "e_set_armed" /\ Log("armable")
         ELSE UNCHANGED << pc, trace >>
    /\ UNCHANGED << cfgVars, ret, exc, alarmVars, atkVars, simVars, vehicle,
                    linkVars, monVars >>

\* conn.armed = True
ExecSetArmed ==
    /\ pc = "e_set_armed"
    /\ armed_req' = TRUE
    /\ pc' = "e_wait_armed"
    /\ UNCHANGED << cfgVars, ret, exc, alarmVars, atkVars, simVars, vehicle,
                    vcmds, uploaded, synced, oracle, mode, start_msgs, monVars,
                    trace >>

\* while not conn.armed: time.sleep(0.1); conn.armed = True
ExecWaitArmed ==
    /\ pc = "e_wait_armed"
    /\ \E armed \in BOOLEAN :
         IF armed
         THEN pc' = "i_clear" /\ Log("armed")
         ELSE UNCHANGED << pc, trace >>
    /\ UNCHANGED << cfgVars, ret, exc, alarmVars, atkVars, simVars, vehicle,
                    linkVars, monVars >>

\* issue without vcmds.clear(): the commands are added to what the link's
\* list already holds.
IssueWithoutClear ==
    /\ pc = "i_clear"
    /\ pc' = "i_add"
    /\ UNCHANGED << cfgVars, ret, exc, alarmVars, atkVars, simVars, vehicle,
                    linkVars, monVars, trace >>

\* issue: vcmds = conn.commands; vcmds.clear()
IssueClear ==
    /\ pc = "i_clear"
    /\ vcmds' = << >>
    /\ pc' = "i_add"
    /\ UNCHANGED << cfgVars, ret, exc, alarmVars, atkVars, simVars, vehicle,
                    uploaded, synced, oracle, armed_req, mode, start_msgs,
                    monVars, trace >>

\* issue: for command in self.commands: vcmds.add(command)
IssueAdd ==
    /\ pc = "i_add"
    /\ vcmds' = vcmds \o m_commands
    /\ pc' = "i_oracle"
    /\ UNCHANGED << cfgVars, ret, exc, alarmVars, atkVars, simVars, vehicle,
                    uploaded, synced, oracle, armed_req, mode, start_msgs,
                    monVars, trace >>

\* issue: the oracle is computed from the link's command list, before the
\* upload is triggered.
IssueOracle ==
    /\ pc = "i_oracle"
    /\ LET o == OracleBuild(vcmds, args.vehicle, args.enable_workaround, rev) IN
       IF o.raised # "none"
       THEN /\ exc' = o.raised
            /\ pc' = RaiseTo(rev, o.raised)
            /\ UNCHANGED << oracle, trace >>
       ELSE /\ oracle' = o
            /\ Log("oracle")
            /\ pc' = "i_upload"
            /\ exc' = exc
    /\ UNCHANGED << cfgVars, ret, alarmVars, atkVars, simVars, vehicle, vcmds,
                    uploaded, synced, armed_req, mode, start_msgs, monVars >>

\* issue: vcmds.upload()
IssueUpload ==
    /\ pc = "i_upload"
    /\ uploaded' = vcmds
    /\ synced' = FALSE
    /\ Log("upload")
    /\ pc' = "i_wait_ready"
    /\ UNCHANGED << cfgVars, ret, exc, alarmVars, atkVars, simVars, vehicle,
                    vcmds, oracle, armed_req, mode, start_msgs, monVars >>

\* issue: vcmds.wait_ready() blocks until the link reports the list synced.
IssueWaitReady ==
    /\ pc = "i_wait_ready"
    /\ \E ready \in BOOLEAN :
         IF ready
         THEN synced' = TRUE /\ pc' = "e_mode_auto" /\ Log("synced")
         ELSE UNCHANGED << synced, pc, trace >>
    /\ UNCHANGED << cfgVars, ret, exc, alarmVars, atkVars, simVars, vehicle,
                    vcmds, uploaded, oracle, armed_req, mode, start_msgs, monVars >>

\* conn.mode = VehicleMode("AUTO")
ExecModeAuto ==
    /\ pc = "e_mode_auto"
    /\ mode' = "AUTO"
    /\ Log("mode_auto")
    /\ pc' = "e_send_start"
    /\ UNCHANGED << cfgVars, ret, exc, alarmVars, atkVars, simVars, vehicle,
                    vcmds, uploaded, synced, oracle, armed_req, start_msgs, monVars >>

\* A start command whose last item is len(self).
ExecSendStartLenOnly ==
    /\ pc = "e_send_start"
    /\ start_msgs' = Append(start_msgs,
                            [first |-> 1, last |-> Len(m_commands)])
    /\ Log("mission_start")
    /\ pc' = "e_init_monitor"
    /\ UNCHANGED << cfgVars, ret, exc, alarmVars, atkVars, simVars, vehicle,
                    vcmds, uploaded, synced, oracle, armed_req, mode, monVars >>

\* command_long_encode(0, 0, 300, 0, 1, len(self) + 1, ...); send_mavlink.
ExecSendStart ==
    /\ pc = "e_send_start"
    /\ start_msgs' = Append(start_msgs,
                            [first |-> 1, last |-> Len(m_commands) + 1])
    /\ Log("mission_start")
    /\ pc' = "e_init_monitor"
    /\ UNCHANGED << cfgVars, ret, exc, alarmVars, atkVars, simVars, vehicle,
                    vcmds, uploaded, synced, oracle, armed_req, mode, monVars >>

\* mission_complete = [False]; actual_num_wps_visited = [0];
\* pos_last = conn.location.global_frame
ExecInitMonitor ==
    /\ pc = "e_init_monitor"
    /\ mission_complete' = FALSE
    /\ actual_num_wps_visited' = 0
    /\ \E position \in RunPositions : pos_last' = position
    /\ pc' = "e_add_listener"
    /\ UNCHANGED << cfgVars, ret, exc, alarmVars, atkVars, simVars, vehicle,
                    linkVars, unpacked, h_pos_last, stale_at_exit, dist, listener, hpc,
                    handler_error, trace >>

\* conn.add_message_listener('STATUSTEXT', on_waypoint)
ExecAddListener ==
    /\ pc = "e_add_listener"
    /\ listener' = TRUE
    /\ Log("subscribe")
    /\ pc' = "e_loop_cond"
    /\ UNCHANGED << cfgVars, ret, exc, alarmVars, atkVars, simVars, vehicle,
                    linkVars, mission_complete, actual_num_wps_visited,
                    unpacked, pos_last, h_pos_last, stale_at_exit, dist, hpc, handler_error >>

\* A loop that may end whether or not the flag is set.
ExecLoopCondIgnoresFlag ==
    /\ pc = "e_loop_cond"
    /\ \/ /\ pc' = "e_unpack"
          /\ \E last_heartbeat \in 0 .. MaxHeartbeatAge :
               stale_at_exit' = (last_heartbeat > TimeoutHeartbeat)
       \/ /\ pc' = "e_loop_hb"
          /\ UNCHANGED stale_at_exit
    /\ UNCHANGED << cfgVars, ret, exc, alarmVars, atkVars, simVars, vehicle,
                    linkVars, mission_complete, actual_num_wps_visited,
                    unpacked, pos_last, h_pos_last, dist, listener, hpc,
                    handler_error, trace >>

\* while not mission_complete[0]: the flag alone ends the loop; the age
\* of the link's last heartbeat at that moment, whatever it is, is not
\* read.
ExecLoopCond ==
    /\ pc = "e_loop_cond"
    /\ IF mission_complete
       THEN /\ pc' = "e_unpack"
            /\ \E last_heartbeat \in 0 .. MaxHeartbeatAge :
                 stale_at_exit' = (last_heartbeat > TimeoutHeartbeat)
       ELSE /\ pc' = "e_loop_hb"
            /\ UNCHANGED stale_at_exit
    /\ UNCHANGED << cfgVars, ret, exc, alarmVars, atkVars, simVars, vehicle,
                    linkVars, mission_complete, actual_num_wps_visited,
                    unpacked, pos_last, h_pos_last, dist, listener, hpc,
                    handler_error, trace >>

\* if conn.last_heartbeat > timeout_heartbeat: return (False, ...)
\* else: time.sleep(0.2)
ExecLoopHeartbeat ==
    /\ pc = "e_loop_hb"
    /\ \E last_heartbeat \in 0 .. MaxHeartbeatAge :
         IF last_heartbeat > TimeoutHeartbeat
         THEN /\ ret' = Verdict(FALSE, ReasonUnresponsive)
              /\ pc' = "e_finally"
         ELSE /\ pc' = "e_loop_cond"
              /\ ret' = ret
    /\ UNCHANGED << cfgVars, exc, alarmVars, atkVars, simVars, vehicle,
                    linkVars, monVars, trace >>

\* actual_num_wps_visited = actual_num_wps_visited[0]: the variable the
\* handler closes over now holds the integer.
ExecUnpack ==
    /\ pc = "e_unpack"
    /\ unpacked' = TRUE
    /\ pc' = "e_check_wps"
    /\ UNCHANGED << cfgVars, ret, exc, alarmVars, atkVars, simVars, vehicle,
                    linkVars, mission_complete, actual_num_wps_visited,
                    pos_last, h_pos_last, stale_at_exit, dist, listener, hpc, handler_error, trace >>

\* start_core: sat_wps = actual >= oracle.num_waypoints_visited;
\*             if check_wps and sat_wps: return (False, ...)
FailsWaypointCheckCore(check, actual, expected) ==
    check /\ (actual >= expected)

\* th: if check_wps and actual_num_wps_visited < expected_num_wps_visited
FailsWaypointCheckTh(check, actual, expected) ==
    check /\ (actual < expected)

\* A waypoint check that is made whether or not it is enabled.
FailsWaypointCheckAlways(r, check, actual, expected) ==
    IF r = "core" THEN FailsWaypointCheckCore(TRUE, actual, expected)
    ELSE FailsWaypointCheckTh(TRUE, actual, expected)

FailsWaypointCheck(r, check, actual, expected) ==
    IF r = "core" THEN FailsWaypointCheckCore(check, actual, expected)
    ELSE FailsWaypointCheckTh(check, actual, expected)

ExecCheckWps ==
    /\ pc = "e_check_wps"
    /\ IF FailsWaypointCheck(rev, args.check_wps, actual_num_wps_visited,
                             oracle.num_waypoints_visited)
       THEN /\ ret' = Verdict(FALSE, ReasonWaypoints)
            /\ pc' = "e_finally"
       ELSE /\ pc' = "e_distance"
            /\ ret' = ret
    /\ UNCHANGED << cfgVars, exc, alarmVars, atkVars, simVars, vehicle,
                    linkVars, monVars, trace >>

\* start_core: if dist > self.oracle.max_distance: return (True, None)
PassesDistanceCore(d, max_distance) == d > max_distance

\* th: if dist < 3.0: return (True, None)
PassesDistanceTh(d, max_distance) == d < MaxDistanceMm

PassesDistance(r, d, max_distance) ==
    IF r = "core" THEN PassesDistanceCore(d, max_distance)
    ELSE PassesDistanceTh(d, max_distance)

\* dist = distance(oracle.end_position, pos_last), then the verdict.
ExecDistance ==
    /\ pc = "e_distance"
    /\ dist' = distance(oracle.end_position, pos_last)
    /\ ret' = IF PassesDistance(rev, dist', oracle.max_distance)
              THEN Verdict(TRUE, "None")
              ELSE Verdict(FALSE, ReasonTooFar)
    /\ pc' = "e_finally"
    /\ UNCHANGED << cfgVars, exc, alarmVars, atkVars, simVars, vehicle,
                    linkVars, mission_complete, actual_num_wps_visited,
                    unpacked, pos_last, h_pos_last, stale_at_exit, listener,
                    hpc, handler_error, trace >>

\* finally: conn.remove_message_listener('STATUSTEXT', on_waypoint); then
\* the pending return or exception leaves execute.
ExecFinally ==
    /\ pc = "e_finally"
    /\ listener' = FALSE
    /\ Log("unsubscribe")
    /\ pc' = IF exc # "none" THEN RaiseTo(rev, exc) ELSE ReturnTo(rev)
    /\ UNCHANGED << cfgVars, ret, exc, alarmVars, atkVars, simVars, vehicle,
                    linkVars, mission_complete, actual_num_wps_visited,
                    unpacked, pos_last, h_pos_last, stale_at_exit, dist, hpc, handler_error >>

(* ------------------------- the STATUSTEXT handler --------------------- *)

IsTerminal(text, is_copter) ==
    text \in TerminalPrefixes \/ (text = CopterTerminalPrefix /\ is_copter)

\* on_waypoint, first if: a reached pattern increments the counter.  A
\* terminal pattern goes on to the second if.  Subscripting the counter
\* after it was unpacked raises inside the handler.
OnWaypoint(text) ==
    /\ listener
    /\ vehicle = "connected"
    /\ hpc = "idle"
    /\ actual_num_wps_visited < MaxVisited
    /\ IF text \in ReachedPrefixes
       THEN IF unpacked
            THEN /\ handler_error' = TRUE
                 /\ UNCHANGED << actual_num_wps_visited, hpc >>
            ELSE /\ actual_num_wps_visited' = actual_num_wps_visited + 1
                 /\ UNCHANGED << handler_error, hpc >>
       ELSE /\ hpc' = IF IsTerminal(text, args.vehicle = "ArduCopter")
                      THEN "h_incr" ELSE hpc
            /\ UNCHANGED << actual_num_wps_visited, handler_error >>
    /\ UNCHANGED << cfgVars, ctlVars, alarmVars, atkVars, simVars, vehicle,
                    linkVars, mission_complete, unpacked, pos_last,
                    h_pos_last, stale_at_exit, dist, listener, trace >>

\* dronekit delivers a STATUSTEXT message to the listener.
Deliver == \E text \in Texts : OnWaypoint(text)

\* The vehicle, which was sent the start command, emits a reached or
\* terminal STATUSTEXT while on_waypoint is not a listener of the link:
\* dronekit notifies the listeners registered at that moment, so the
\* handler is not called for it, then or later.
EmitUnheard ==
    /\ vehicle = "connected"
    /\ start_msgs # << >>
    /\ ~listener
    /\ Count(trace, "event unheard") < MaxUnheard
    /\ \E text \in Texts :
         /\ text \in ReachedPrefixes \/ IsTerminal(text, args.vehicle = "ArduCopter")
         /\ Log("event unheard")
    /\ UNCHANGED << cfgVars, ctlVars, alarmVars, atkVars, simVars, vehicle,
                    linkVars, monVars >>

\* A second if that goes on without counting the terminal event.
HandlerIncrSkipsCount ==
    /\ hpc = "h_incr"
    /\ hpc' = "h_pos"
    /\ UNCHANGED << cfgVars, ctlVars, alarmVars, atkVars, simVars, vehicle,
                    linkVars, mission_complete, actual_num_wps_visited,
                    unpacked, pos_last, h_pos_last, stale_at_exit, dist,
                    listener, handler_error, trace >>

\* second if: actual_num_wps_visited[0] += 1
HandlerIncr ==
    /\ hpc = "h_incr"
    /\ IF unpacked
       THEN /\ handler_error' = TRUE
            /\ hpc' = "idle"
            /\ UNCHANGED actual_num_wps_visited
       ELSE /\ actual_num_wps_visited' = actual_num_wps_visited + 1
            /\ hpc' = "h_pos"
            /\ UNCHANGED handler_error
    /\ UNCHANGED << cfgVars, ctlVars, alarmVars, atkVars, simVars, vehicle,
                    linkVars, mission_complete, unpacked, pos_last,
                    h_pos_last, stale_at_exit, dist, listener, trace >>

\* pos_last = conn.location.global_frame: an assignment inside on_waypoint
\* binds on_waypoint's own pos_last, not execute's.
HandlerPos ==
    /\ hpc = "h_pos"
    /\ \E position \in RunPositions : h_pos_last' = position
    /\ hpc' = "h_flag"
    /\ UNCHANGED << cfgVars, ctlVars, alarmVars, atkVars, simVars, vehicle,
                    linkVars, mission_complete, actual_num_wps_visited,
                    unpacked, pos_last, stale_at_exit, dist, listener,
                    handler_error, trace >>

\* mission_complete[0] = True
HandlerFlag ==
    /\ hpc = "h_flag"
    /\ mission_complete' = TRUE
    /\ hpc' = "idle"
    /\ UNCHANGED << cfgVars, ctlVars, alarmVars, atkVars, simVars, vehicle,
                    linkVars, actual_num_wps_visited, unpacked, pos_last,
                    h_pos_last, stale_at_exit, dist, listener, handler_error, trace >>

(* ------------------------------ the deadline -------------------------- *)

ExecPreTry ==
    {"e_wait_armable", "e_set_armed", "e_wait_armed", "i_clear", "i_add",
     "i_oracle", "i_upload", "i_wait_ready", "e_mode_auto", "e_send_start",
     "e_init_monitor"}

ExecTry ==
    {"e_add_listener", "e_loop_cond", "e_loop_hb", "e_unpack", "e_check_wps",
     "e_distance"}

FinPcs == {"fin_attacker", "fin_vehicle", "fin_sitl"}

\* SIGALRM is delivered: timeout_handler raises the timeout exception in
\* the main thread, wherever it is.  Nothing ever calls signal.alarm(0), so
\* the timer stays armed after execute has returned.
\*   before the try of execute: the exception leaves execute;
\*   inside the try: the finally clause of execute runs, then it leaves;
\*   inside that finally clause: the clause is abandoned;
\*   inside the exit of sitl.launch: the exit is abandoned, the runner's
\*     except clause catches the exception;
\*   inside the runner's finally clause: the clause is abandoned and the
\*     exception leaves the runner.
AlarmFire ==
    /\ alarm = "armed"
    /\ pc \in ExecPreTry \cup ExecTry \cup {"e_finally", "sitl_exit"} \cup FinPcs
    /\ alarm' = "fired"
    /\ exc' = TimeoutName
    /\ ret' = NoRet
    /\ Log(IF pc \in FinPcs THEN "SIGALRM in teardown"
           ELSE IF pc = "sitl_exit" THEN "SIGALRM in sitl exit"
           ELSE "SIGALRM in execute")
    /\ pc' = IF pc \in ExecTry THEN "e_finally"
             ELSE IF pc = "sitl_exit" THEN "except"
             ELSE IF pc \in FinPcs THEN "done"
             ELSE RaiseTo(rev, TimeoutName)
    /\ UNCHANGED << cfgVars, alarm_secs, atkVars, simVars, vehicle, linkVars,
                    monVars >>

(* ---------------------------- specification --------------------------- *)

Next ==
    \/ SitlStart
    \/ RunnerPrepare
    \/ RunnerConnect
    \/ RunnerWaitReady
    \/ RunnerAttackStart
    \/ ExecArmAlarm
    \/ ExecWaitArmable
    \/ ExecSetArmed
    \/ ExecWaitArmed
    \/ IssueClear
    \/ IssueAdd
    \/ IssueOracle
    \/ IssueUpload
    \/ IssueWaitReady
    \/ ExecModeAuto
    \/ ExecSendStart
    \/ ExecInitMonitor
    \/ ExecAddListener
    \/ ExecLoopCond
    \/ ExecLoopHeartbeat
    \/ ExecUnpack
    \/ ExecCheckWps
    \/ ExecDistance
    \/ ExecFinally
    \/ SitlExit
    \/ RunnerExcept
    \/ RunnerFinAttacker
    \/ RunnerFinVehicle
    \/ RunnerFinSitl
    \/ Deliver
    \/ HandlerIncr
    \/ HandlerPos
    \/ HandlerFlag
    \/ AlarmFire

Spec == Init /\ [][Next]_vars

(* ------------------------------ scheduling ---------------------------- *)

\* The steps the main thread takes whenever it is at them.  The three
\* polling waits (is_armable, armed, wait_ready) are not among them: they
\* end only if the vehicle lets them.  The wait loop of execute is: each
\* of its rounds is taken, whether or not one of them ever leaves the loop.
MainThreadStep ==
    \/ SitlStart
    \/ RunnerPrepare
    \/ RunnerConnect
    \/ RunnerWaitReady
    \/ RunnerAttackStart
    \/ ExecArmAlarm
    \/ ExecSetArmed
    \/ IssueClear
    \/ IssueAdd
    \/ IssueOracle
    \/ IssueUpload
    \/ ExecModeAuto
    \/ ExecSendStart
    \/ ExecInitMonitor
    \/ ExecAddListener
    \/ ExecLoopCond
    \/ ExecLoopHeartbeat
    \/ ExecUnpack
    \/ ExecCheckWps
    \/ ExecDistance
    \/ ExecFinally
    \/ SitlExit
    \/ RunnerExcept
    \/ RunnerFinAttacker
    \/ RunnerFinVehicle
    \/ RunnerFinSitl

\* One run with a positive time limit, as foo.main calls the runner.
LiveInit ==
    /\ rev \in Revs
    /\ args \in [vehicle : {"APMrover2"}, attack : BOOLEAN, check_wps : {TRUE},
                 enable_workaround : {FALSE},
                 limits : {[time_limit |-> 300, speedup |-> 10]},
                 commands : {<< Cmd(MAV_CMD_NAV_WAYPOINT, 4, 0, 0) >>}]
    /\ ctor_list = args.commands
    /\ m_commands = args.commands
    /\ pc = IF rev = "core" THEN "sitl_start" ELSE "prepare"
    /\ vcmds = << >>
    /\ Idle

\* The main thread keeps running, and the kernel delivers SIGALRM when the
\* timer that signal.alarm armed runs out.
LiveSpec ==
    LiveInit /\ [][Next]_vars /\ WF_vars(MainThreadStep) /\ WF_vars(AlarmFire)

(* ------------------- telemetry that nothing listens to ------------------ *)

\* A run in which the vehicle also emits telemetry while on_waypoint is not
\* subscribed.
TelemetryNext == Next \/ EmitUnheard

TelemetrySpec == LiveInit /\ [][TelemetryNext]_vars

(* ------------------- the controllers, called in any order ------------- *)

\* A caller other than the runner: it calls SITL.start / SITL.stop and
\* Attacker.prepare / Attacker.stop in any order.  pc names the call that
\* returned or raised last, exc its exception.
CallerPcs ==
    {"caller", "sitl.start", "sitl.stop", "attacker.prepare", "attacker.stop",
     "attacker.start", "attacker.was_successful"}

LifecycleArgs ==
    [vehicle |-> "APMrover2", attack |-> TRUE, check_wps |-> FALSE,
     enable_workaround |-> TRUE, limits |-> [time_limit |-> 0, speedup |-> 1],
     commands |-> << >>]

LifecycleInit ==
    /\ rev \in Revs
    /\ args = LifecycleArgs
    /\ ctor_list = args.commands
    /\ m_commands = args.commands
    /\ pc = "caller"
    /\ vcmds = << >>
    /\ Idle

\* SITL.start: Popen in a new session; the handle is overwritten.
CallSitlStart ==
    /\ pc \in CallerPcs
    /\ rev = "th"
    /\ Len(sim_groups) < MaxLaunches
    /\ sitl_process' = "set"
    /\ sim_groups' = Launch(sim_groups)
    /\ exc' = "none"
    /\ pc' = "sitl.start"
    /\ UNCHANGED << cfgVars, ret, alarmVars, atkVars, sim_kills, vehicle,
                    linkVars, monVars, trace >>

\* SITL.stop
CallSitlStop ==
    /\ pc \in CallerPcs
    /\ rev = "th"
    /\ \E kill_fails \in BOOLEAN :
         LET r == SitlStop(sitl_process, kill_fails) IN
         /\ sitl_process' = r.process
         /\ sim_kills' = sim_kills + Count(r.ops, "sim_kill")
         /\ sim_groups' = SignalTimes(sim_groups, Count(r.ops, "sim_kill"))
         /\ exc' = r.raised
    /\ pc' = "sitl.stop"
    /\ UNCHANGED << cfgVars, ret, alarmVars, atkVars, vehicle, linkVars,
                    monVars, trace >>

\* Attacker.prepare: every field is overwritten; a refused connection
\* raises after the process is launched and the socket created.
CallAttackerPrepare ==
    /\ pc \in CallerPcs
    /\ Len(atk_groups) < MaxLaunches
    /\ \E refused \in BOOLEAN :
         /\ attacker' = AttackerPrepared(attacker, refused)
         /\ exc' = IF refused THEN "ConnectionRefusedError" ELSE "none"
    /\ atk_groups' = Launch(atk_groups)
    /\ pc' = "attacker.prepare"
    /\ UNCHANGED << cfgVars, ret, alarmVars, written, atk_kills, checked,
                    simVars, vehicle, linkVars, monVars, trace >>

\* Attacker.stop
CallAttackerStop ==
    /\ pc \in CallerPcs
    /\ \E write_fails \in BOOLEAN, kill_fails \in BOOLEAN :
         LET r == AttackerStop(attacker, write_fails, kill_fails) IN
         /\ attacker' = r.a
         /\ written' = written \o SelectSeq(r.ops, LAMBDA o : o = "EXIT")
         /\ atk_kills' = atk_kills + Count(r.ops, "atk_kill")
         /\ atk_groups' = SignalTimes(atk_groups, Count(r.ops, "atk_kill"))
         /\ exc' = r.raised
    /\ pc' = "attacker.stop"
    /\ UNCHANGED << cfgVars, ret, alarmVars, checked, simVars, vehicle,
                    linkVars, monVars, trace >>

LifecycleNext ==
    \/ CallSitlStart
    \/ CallSitlStop
    \/ CallAttackerPrepare
    \/ CallAttackerStop

LifecycleSpec == LifecycleInit /\ [][LifecycleNext]_vars

(* ------------------ a Mission, constructed and issued ------------------ *)

\* Whether the Mission keeps the list object it was constructed with.
\* th: self.__commands = commands[:] is a copy.  start_core: the class
\* declares `commands = attr.ib(...)` and from_file calls
\* Mission(vehicle, cmds, home); the attribute is the argument itself.
CtorAliases(r) == r = "core"

\* What the link's list holds before a mission is issued: nothing, or an
\* earlier mission.
PriorLists == {<< >>} \cup RunMissions

MissionArgs ==
    [vehicle : VehicleKinds, attack : {FALSE}, check_wps : {FALSE},
     enable_workaround : BOOLEAN, limits : {[time_limit |-> 0, speedup |-> 1]},
     commands : RunMissions]

\* A caller holds a command list and a link, and is about to construct a
\* Mission from the list.
MissionSpecInit ==
    /\ rev \in Revs
    /\ args \in MissionArgs
    /\ ctor_list = args.commands
    /\ m_commands = << >>
    /\ pc = "m_init"
    /\ vcmds \in PriorLists
    /\ Idle

\* Mission(home, commands, vehicle)
MissionInit ==
    /\ pc = "m_init"
    /\ m_commands' = ctor_list
    /\ pc' = "m_idle"
    /\ UNCHANGED << rev, args, ctor_list, ret, exc, alarmVars, atkVars, simVars, vehicle, linkVars,
                    monVars, trace >>

\* The caller changes the list it gave to the constructor: it appends a
\* command to it or empties it.
CallerMutatesList ==
    /\ pc = "m_idle"
    /\ \/ /\ Len(ctor_list) < MaxCmds
          /\ ctor_list' = Append(ctor_list, Cmd(MAV_CMD_NAV_RETURN_TO_LAUNCH, 0, 0, 0))
       \/ /\ ctor_list # << >>
          /\ ctor_list' = << >>
    /\ m_commands' = IF CtorAliases(rev) THEN ctor_list' ELSE m_commands
    /\ UNCHANGED << rev, args, ctlVars, alarmVars, atkVars, simVars, vehicle,
                    linkVars, monVars, trace >>

\* Somebody else clears the link's command list (conn.commands.clear()).
LinkListCleared ==
    /\ pc = "m_idle"
    /\ vcmds # << >>
    /\ vcmds' = << >>
    /\ UNCHANGED << cfgVars, ctlVars, alarmVars, atkVars, simVars, vehicle,
                    uploaded, synced, oracle, armed_req, mode, start_msgs,
                    monVars, trace >>

\* mission.issue(conn, enable_workaround) is called.
CallIssue ==
    /\ pc = "m_idle"
    /\ Count(trace, "issue") < MaxIssues
    /\ pc' = "i_clear"
    /\ exc' = "none"
    /\ Log("issue")
    /\ UNCHANGED << cfgVars, ret, alarmVars, atkVars, simVars, vehicle,
                    linkVars, monVars >>

\* issue has returned, or raised, to this caller.
IssueLeft ==
    /\ pc \in {"e_mode_auto", "sitl_exit", "fin_attacker"}
    /\ pc' = "m_idle"
    /\ UNCHANGED << cfgVars, ret, exc, alarmVars, atkVars, simVars, vehicle,
                    linkVars, monVars, trace >>

MissionNext ==
    \/ MissionInit
    \/ CallerMutatesList
    \/ LinkListCleared
    \/ CallIssue
    \/ IssueClear
    \/ IssueAdd
    \/ IssueOracle
    \/ IssueUpload
    \/ IssueWaitReady
    \/ IssueLeft

MissionSpec == MissionSpecInit /\ [][MissionNext]_vars

(* --------------------- the oracle of any mission ----------------------- *)

\* The commands of the missions the oracle is computed for: two
\* waypoints, RETURN_TO_LAUNCH, LAND and one other command.
OracleCommands ==
    {Cmd(MAV_CMD_NAV_WAYPOINT, 4, 0, 0), Cmd(MAV_CMD_NAV_WAYPOINT, 3, 0, 0),
     Cmd(MAV_CMD_NAV_RETURN_TO_LAUNCH, 0, 0, 0), Cmd(MAV_CMD_NAV_LAND, 0, 0, 0),
     Cmd(MAV_CMD_NAV_TAKEOFF, 0, 0, 0)}

SeqsUpTo(S, n) == UNION {[1 .. k -> S] : k \in 0 .. n}

\* Mission.issue has added the Mission's commands to the link's list and
\* is about to compute the oracle from it.
OracleSpecInit ==
    /\ rev \in Revs
    /\ args \in [vehicle : VehicleKinds, attack : {FALSE}, check_wps : {FALSE},
                 enable_workaround : BOOLEAN,
                 limits : {[time_limit |-> 0, speedup |-> 1]},
                 commands : SeqsUpTo(OracleCommands, MaxCmds)]
    /\ ctor_list = args.commands
    /\ m_commands = args.commands
    /\ pc = "i_oracle"
    /\ vcmds = args.commands
    /\ Idle

OracleNext == IssueOracle

OracleSpec == OracleSpecInit /\ [][OracleNext]_vars

(* ----------------- the attack process asked for its result ------------- *)

ReplyChars == {"N", "O", " "}

SeqsFromTo(S, m, n) == UNION {[1 .. k -> S] : k \in m .. n}

NoAttackDetected ==
    << "N", "O", " ", "A", "T", "T", "A", "C", "K", " ",
       "D", "E", "T", "E", "C", "T", "E", "D", "\n" >>

ReplyOk == << "O", "K", "\n" >>

\* What readline() returns: a line with its newline, or nothing at the end
\* of the stream.
ReplyLines ==
    {Append(text, "\n") : text \in SeqsFromTo(ReplyChars, 0, MaxReplyLen)}
        \cup {<< >>, NoAttackDetected, ReplyOk}

\* Attacker.was_successful: write CHECK, flush, read one line.  Without a
\* channel (prepare not called or refused, or after stop) the attribute
\* access on None raises; write_fails as in Attacker.stop.
WasSuccessfulCalled(lines) ==
    /\ pc \in CallerPcs
    /\ Count(written, "CHECK") < MaxChecks
    /\ IF attacker.connection = "None"
       THEN /\ exc' = "AttributeError"
            /\ UNCHANGED << written, checked >>
       ELSE \E write_fails \in BOOLEAN, line \in lines :
              IF write_fails
              THEN /\ exc' = "IOError"
                   /\ UNCHANGED << written, checked >>
              ELSE /\ written' = Append(written, "CHECK")
                   /\ checked' = [reads |-> checked.reads + 1, reply |-> line,
                                  result |-> WasSuccessful(line)]
                   /\ exc' = "none"
    /\ pc' = "attacker.was_successful"
    /\ UNCHANGED << cfgVars, ret, alarmVars, attacker, atk_kills, atk_groups,
                    simVars, vehicle, linkVars, monVars, trace >>

CallWasSuccessful == WasSuccessfulCalled(ReplyLines)

\* Attacker.start: write START, flush.  Without a channel the attribute
\* access on None raises.
CallAttackerStart ==
    /\ pc \in CallerPcs
    /\ Count(written, "START") < MaxStarts
    /\ IF attacker.connection = "None"
       THEN /\ exc' = "AttributeError"
            /\ UNCHANGED written
       ELSE \E write_fails \in BOOLEAN :
              IF write_fails
              THEN /\ exc' = "IOError"
                   /\ UNCHANGED written
              ELSE /\ written' = Append(written, "START")
                   /\ exc' = "none"
    /\ pc' = "attacker.start"
    /\ UNCHANGED << cfgVars, ret, alarmVars, attacker, atk_kills, atk_groups,
                    checked, simVars, vehicle, linkVars, monVars, trace >>

\* An Attacker that is prepared, asked for its result and stopped, in any
\* order, the attack process replying any line.
CheckNext ==
    \/ CallAttackerPrepare
    \/ CallWasSuccessful
    \/ CallAttackerStop

CheckSpec == LifecycleInit /\ [][CheckNext]_vars

(* ------------- the lines written to the attack control channel --------- *)

\* was_successful, the attack process replying one of its two reports or
\* nothing.
CallWasSuccessfulReported ==
    WasSuccessfulCalled({NoAttackDetected, ReplyOk, << >>})

\* An Attacker whose four methods a caller calls in any order.
ChannelNext ==
    \/ CallAttackerPrepare
    \/ CallAttackerStart
    \/ CallWasSuccessfulReported
    \/ CallAttackerStop

ChannelSpec == LifecycleInit /\ [][ChannelNext]_vars

(* ------------------- the deadline of any time limit -------------------- *)

\* The (time_limit, speedup) execute is called with: those of the runs and
\* every small pair, speed-up factors of 1 and below included.
DeadlineLimits ==
    RunLimits \cup [time_limit : 0 .. MaxTimeLimit, speedup : (-1) .. MaxSpeedup]

\* Mission.execute has been called and is about to rescale the time limit
\* and arm the timer.
DeadlineSpecInit ==
    /\ rev \in Revs
    /\ args \in [vehicle : {"APMrover2"}, attack : {FALSE}, check_wps : {FALSE},
                 enable_workaround : {TRUE}, limits : DeadlineLimits,
                 commands : {<< >>}]
    /\ ctor_list = args.commands
    /\ m_commands = args.commands
    /\ pc = "e_alarm"
    /\ vcmds = << >>
    /\ Idle

DeadlineNext == ExecArmAlarm

DeadlineSpec == DeadlineSpecInit /\ [][DeadlineNext]_vars

(* ---------------------- the distance of any two points ------------------ *)

\* The positions of a grid around home.
GridPositions ==
    {Loc(lat, lon, alt) : lat \in 0 .. MaxCoord, lon \in 0 .. MaxCoord,
                          alt \in 0 .. MaxCoord}

\* Mission.execute is about to compute the distance between the oracle's
\* end position and pos_last, each any position of the grid.
DistanceSpecInit ==
    /\ rev \in Revs
    /\ args = [LifecycleArgs EXCEPT !.attack = FALSE]
    /\ ctor_list = args.commands
    /\ m_commands = args.commands
    /\ pc = "e_distance"
    /\ vcmds = << >>
    /\ NothingAcquired
    /\ \E end_position \in GridPositions :
          oracle = [NoOracle EXCEPT !.end_position = end_position,
                                    !.raised = "none"]
    /\ pos_last \in GridPositions

DistanceNext == ExecDistance

DistanceSpec == DistanceSpecInit /\ [][DistanceNext]_vars

(* ----------------------------- properties ------------------------------ *)

Occurs(e) == \E i \in DOMAIN trace : trace[i] = e

\* Every a in the trace comes before every b.
Precedes(a, b) ==
    \A j \in DOMAIN trace :
        trace[j] = b => \A i \in j .. Len(trace) : trace[i] # a

ExecPcs == {"e_alarm"} \cup ExecPreTry \cup ExecTry \cup {"e_finally"}

\* execute was entered and has returned or raised.
ExecuteExited == Occurs("execute") /\ pc \notin ExecPcs

FailReasons == {ReasonUnresponsive, ReasonWaypoints, ReasonTooFar, ReasonTimeout}

\* C1: when the run completed and the waypoint check let it through, the
\* verdict of execute is Passed exactly when the distance between the
\* oracle's end position and pos_last does not exceed the oracle's
\* tolerance, and Failed(too far) otherwise.
C1_PassIffWithinTolerance ==
    (pc = "e_finally" /\ exc = "none" /\ ret.set
        /\ ret.reason \in {"None", ReasonTooFar})
    => /\ ret.passed <=>
            (distance(oracle.end_position, pos_last) <= oracle.max_distance)
       /\ ret.passed <=> (ret.reason = "None")

\* C2: on completion the waypoint check fails the run exactly when
\* check_wps is set and fewer waypoints were visited than the oracle's
\* minimum; with at least the minimum visited it never fails the run.
C2_WaypointCheckFailsIffTooFew ==
    LET too_few == args.check_wps
                   /\ actual_num_wps_visited < oracle.num_waypoints_visited
    IN /\ (pc = "e_finally" /\ exc = "none" /\ ret.set
              /\ ret.reason = ReasonWaypoints) => too_few
       /\ (pc = "e_distance") => ~too_few

\* C3: once execute has returned or raised, no deadline remains armed.
C3_DeadlineDisarmedOnExit ==
    ExecuteExited => alarm # "armed"

\* C4: when the heartbeat check ended the wait loop, the verdict of execute
\* is Failed(unresponsive-vehicle) and, once execute has exited on that
\* path, the listener is unsubscribed and the deadline is disarmed.
C4_UnresponsiveExitCleansUp ==
    /\ (pc = "e_finally" /\ exc = "none" /\ ret.set /\ ~mission_complete
           /\ ~unpacked)
       => ret = Verdict(FALSE, ReasonUnresponsive)
    /\ (ExecuteExited /\ exc = "none" /\ ret.set
           /\ ret.reason = ReasonUnresponsive)
       => (~listener /\ alarm # "armed")

\* C5: when the deadline expired inside execute, the run ends with the
\* verdict Failed(timeout).
C5_ExpiryGivesTimeoutVerdict ==
    (pc = "done" /\ Occurs("SIGALRM in execute"))
    => (exc = "none" /\ ret = Verdict(FALSE, ReasonTimeout))

\* C6: a finished run has exactly one outcome: Passed without a reason,
\* Failed with one of the four reasons, or a startup error (an exception
\* raised before the mission was executed).
C6_ExactlyOneOutcome ==
    pc = "done"
    => \/ exc = "none" /\ ret.set /\ ret.passed /\ ret.reason = "None"
       \/ exc = "none" /\ ret.set /\ ~ret.passed /\ ret.reason \in FailReasons
       \/ exc # "none" /\ ~ret.set /\ ~Occurs("execute")

\* C7: teardown runs in the order unsubscribe, attacker stop, link close,
\* simulator stop; the simulator's process group is not signalled before
\* the attacker is stopped and the link is closed.
C7_TeardownOrder ==
    /\ Precedes("unsubscribe", "attacker.stop")
    /\ Precedes("attacker.stop", "vehicle.close")
    /\ Precedes("vehicle.close", "sitl.stop")
    /\ Precedes("attacker.stop", "sitl.stop")
    /\ Occurs("sim_kill")
       => /\ args.attack => Occurs("attacker.stop")
          /\ vehicle # "connected"

\* C8: when the run is over, the attacker (if configured) was stopped once,
\* the link (if connected) was closed once and the simulator (if started)
\* was stopped once, whatever failed on the way.
C8_TeardownEachOnce ==
    pc = "done"
    => /\ args.attack => Count(trace, "attacker.stop") = 1
       /\ Occurs("connect") => Count(trace, "vehicle.close") = 1
       /\ Occurs("sitl.start") => Count(trace, "sitl.stop") = 1

\* C9: a stop() that was called has swallowed every failure of its steps:
\* no OSError of killpg propagates, and the handles are forgotten.
C9_StopNeverRaises ==
    /\ exc # "OSError"
    /\ Occurs("attacker.stop")
       => (attacker.connection = "None" /\ attacker.socket = "None"
           /\ attacker.process = "None")
    /\ (rev = "th" /\ Occurs("sitl.stop")) => sitl_process = "None"

\* C10: after stop() the attacker holds nothing, and it released exactly
\* what prepare() had acquired: EXIT was written iff the channel had been
\* opened, the socket was closed and the process group killed iff
\* prepare() had created them.
C10_StopReleasesWhatWasAcquired ==
    Occurs("attacker.stop")
    => /\ attacker = AttackerInit
       /\ Count(written, "EXIT") = Count(trace, "attacker.connected")
       /\ Count(trace, "socket.close") = Count(trace, "attacker.prepare")
       /\ atk_kills = Count(trace, "attacker.prepare")

\* C11: under any order of start/prepare and stop calls, when a stop() has
\* returned every process group its controller launched has received
\* exactly one signal.
C11_EveryGroupSignalledOnce ==
    /\ (pc = "sitl.stop" /\ exc = "none")
       => \A i \in DOMAIN sim_groups : sim_groups[i] = 1
    /\ (pc = "attacker.stop" /\ exc = "none")
       => \A i \in DOMAIN atk_groups : atk_groups[i] = 1

\* C12: SITL.stop returns with the handle forgotten, sends nothing when no
\* process is held, and after one start any number of stops has sent
\* exactly one signal.
C12_SimulatorStopIdempotent ==
    pc = "sitl.stop"
    => /\ exc = "none"
       /\ sitl_process = "None"
       /\ \A i \in DOMAIN sim_groups : sim_groups[i] <= 1
       /\ Len(sim_groups) = 1 => sim_groups[1] = 1

RefusedInPrepare == Occurs("attacker.prepare") /\ ~Occurs("attacker.connected")

C14_OracleAfterSyncBeforeTrigger ==
    /\ Count(trace, "oracle") <= 1
    /\ Occurs("oracle") => (Occurs("upload") /\ Occurs("synced"))
    /\ Precedes("upload", "oracle") /\ Precedes("synced", "oracle")
    /\ Precedes("oracle", "mode_auto") /\ Precedes("oracle", "mission_start")
    /\ Occurs("mode_auto") => Count(trace, "oracle") = 1

\* C15: when issue returns, the link's command list, and the list that was
\* uploaded, equal the Mission's commands in order and field values,
\* whatever the link's list held before and however often issue is called.
C15_IssueRoundTrip ==
    pc = "e_mode_auto" => (vcmds = m_commands /\ uploaded = m_commands)

C15_Witness ==
    /\ pc = "e_mode_auto"
    /\ Count(trace, "issue") = 2
    /\ Len(m_commands) = 3
    /\ vcmds = m_commands
    /\ uploaded = m_commands

HasCommand(cmds, id) == \E i \in DOMAIN cmds : cmds[i].command = id

\* The index of the first command with this id, Len(cmds) + 1 when none.
FirstIndex(cmds, id) ==
    IF HasCommand(cmds, id)
    THEN CHOOSE i \in DOMAIN cmds :
           /\ cmds[i].command = id
           /\ \A j \in 1 .. (i - 1) : cmds[j].command # id
    ELSE Len(cmds) + 1

RECURSIVE OnGroundAfter(_)
\* The vehicle is on the ground after these commands: it is initially,
\* not after a WAYPOINT, again after a RETURN_TO_LAUNCH.
OnGroundAfter(cmds) ==
    IF cmds = << >> THEN TRUE
    ELSE LET last == cmds[Len(cmds)]
         IN IF last.command = MAV_CMD_NAV_WAYPOINT THEN FALSE
            ELSE IF last.command = MAV_CMD_NAV_RETURN_TO_LAUNCH THEN TRUE
            ELSE OnGroundAfter(SubSeq(cmds, 1, Len(cmds) - 1))

\* The indices of the LAND commands met while on the ground.
GroundedLands(cmds) ==
    {i \in DOMAIN cmds : /\ cmds[i].command = MAV_CMD_NAV_LAND
                         /\ OnGroundAfter(SubSeq(cmds, 1, i - 1))}

\* The oracle has been computed and stored.
OracleStored == pc = "i_upload"

\* C17: the oracle's minimum waypoint count is never negative.
C17_CountNeverNegative ==
    OracleStored => oracle.num_waypoints_visited >= 0

\* C18: for ArduCopter the count is the number of commands up to and
\* including the first RETURN_TO_LAUNCH (all commands when there is none),
\* minus 1, when no LAND truncates the processing of those commands.
C18_CopterCount ==
    LET k == IF HasCommand(vcmds, MAV_CMD_NAV_RETURN_TO_LAUNCH)
             THEN FirstIndex(vcmds, MAV_CMD_NAV_RETURN_TO_LAUNCH)
             ELSE Len(vcmds)
        truncated == args.enable_workaround
                     /\ \E i \in GroundedLands(vcmds) : i <= k
    IN (pc # "i_oracle" /\ args.vehicle = "ArduCopter" /\ ~truncated)
       => (OracleStored /\ oracle.num_waypoints_visited = k - 1)

C18_Witness ==
    /\ OracleStored
    /\ args.vehicle = "ArduCopter"
    /\ Len(vcmds) = 3
    /\ \A i \in DOMAIN vcmds : vcmds[i].command = MAV_CMD_NAV_WAYPOINT
    /\ oracle.num_waypoints_visited = 2

\* C19: with no RETURN_TO_LAUNCH and no LAND in the list and a vehicle
\* other than ArduCopter, the count is the number of commands.
C19_PlainCount ==
    (/\ pc # "i_oracle"
     /\ args.vehicle # "ArduCopter"
     /\ ~HasCommand(vcmds, MAV_CMD_NAV_RETURN_TO_LAUNCH)
     /\ ~HasCommand(vcmds, MAV_CMD_NAV_LAND))
    => (OracleStored /\ oracle.num_waypoints_visited = Len(vcmds))

C19_Witness ==
    /\ OracleStored
    /\ args.vehicle = "ArduPlane"
    /\ Len(vcmds) = 3
    /\ HasCommand(vcmds, MAV_CMD_NAV_TAKEOFF)
    /\ HasCommand(vcmds, MAV_CMD_NAV_WAYPOINT)
    /\ ~HasCommand(vcmds, MAV_CMD_NAV_RETURN_TO_LAUNCH)
    /\ ~HasCommand(vcmds, MAV_CMD_NAV_LAND)
    /\ oracle.num_waypoints_visited = 3

\* The list with every LAND replaced by a command the oracle only counts.
LandsAsPlainSteps(cmds) ==
    [i \in DOMAIN cmds |->
        IF cmds[i].command = MAV_CMD_NAV_LAND
        THEN Cmd(MAV_CMD_NAV_TAKEOFF, 0, 0, 0) ELSE cmds[i]]

\* C20: with the workaround, the first LAND met on the ground ends the
\* computation: the oracle is that of the commands before it.  Without the
\* workaround, or when no LAND is met on the ground, every LAND is counted
\* like any other step.
C20_GroundedLandTruncates ==
    pc # "i_oracle"
    => LET lands == GroundedLands(vcmds)
           same(o) == /\ OracleStored
                      /\ oracle.num_waypoints_visited = o.num_waypoints_visited
                      /\ oracle.end_position = o.end_position
       IN IF args.enable_workaround /\ lands # {}
          THEN LET i == CHOOSE n \in lands : \A m \in lands : n <= m
               IN same(OracleBuild(SubSeq(vcmds, 1, i - 1), args.vehicle,
                                   TRUE, rev))
          ELSE same(OracleBuild(LandsAsPlainSteps(vcmds), args.vehicle,
                                args.enable_workaround, rev))

Min(a, b) == IF a <= b THEN a ELSE b

\* The number of commands of the list that are processed: those before the
\* first LAND met on the ground (with the workaround) and, for ArduCopter,
\* none after the first RETURN_TO_LAUNCH.
ProcessedLen(cmds, kind, enable_workaround) ==
    LET lands == GroundedLands(cmds)
        cut_land == IF enable_workaround /\ lands # {}
                    THEN (CHOOSE n \in lands : \A m \in lands : n <= m) - 1
                    ELSE Len(cmds)
        cut_rtl == IF kind = "ArduCopter"
                   THEN Min(FirstIndex(cmds, MAV_CMD_NAV_RETURN_TO_LAUNCH),
                            Len(cmds))
                   ELSE Len(cmds)
    IN Min(cut_land, cut_rtl)

\* The index of the last command with this id among the first n, 0 when
\* there is none.
LastIndex(cmds, id, n) ==
    LET is == {i \in 1 .. n : cmds[i].command = id}
    IN IF is = {} THEN 0 ELSE CHOOSE i \in is : \A j \in is : j <= i

\* C21: when a RETURN_TO_LAUNCH is processed it is counted like any other
\* command, and the end position is home unless a WAYPOINT is processed
\* after it; for ArduCopter nothing after the first RETURN_TO_LAUNCH is
\* processed (the count and the end position are those of the list cut
\* there), for the other kinds the commands after it still count and a
\* later WAYPOINT sets the end position.
C21_ReturnToLaunch ==
    LET n == ProcessedLen(vcmds, args.vehicle, args.enable_workaround)
        rtl == LastIndex(vcmds, MAV_CMD_NAV_RETURN_TO_LAUNCH, n)
        wp == LastIndex(vcmds, MAV_CMD_NAV_WAYPOINT, n)
        first == FirstIndex(vcmds, MAV_CMD_NAV_RETURN_TO_LAUNCH)
    IN (pc # "i_oracle" /\ rtl > 0)
       => /\ OracleStored
          /\ wp < rtl => oracle.end_position = Home
          /\ args.vehicle = "ArduCopter"
             => /\ oracle.num_waypoints_visited = first - 1
                /\ oracle.end_position = Home
          /\ args.vehicle # "ArduCopter"
             => /\ oracle.num_waypoints_visited = n
                /\ wp > rtl
                   => oracle.end_position
                        = Loc(vcmds[wp].x, vcmds[wp].y, vcmds[wp].z)

C21_Witness ==
    /\ OracleStored
    /\ args.vehicle = "APMrover2"
    /\ vcmds = << Cmd(MAV_CMD_NAV_WAYPOINT, 4, 0, 0),
                  Cmd(MAV_CMD_NAV_RETURN_TO_LAUNCH, 0, 0, 0),
                  Cmd(MAV_CMD_NAV_WAYPOINT, 3, 0, 0) >>
    /\ oracle.num_waypoints_visited = 3
    /\ oracle.end_position = Loc(3, 0, 0)

\* C22: the oracle's end position is the (x, y, z) of the last processed
\* WAYPOINT when no RETURN_TO_LAUNCH is processed after it, and home when
\* no WAYPOINT is processed or a RETURN_TO_LAUNCH is processed after the
\* last one; no other command changes it; the tolerance is the same fixed
\* value for every mission.
C22_EndPosition ==
    LET n == ProcessedLen(vcmds, args.vehicle, args.enable_workaround)
        rtl == LastIndex(vcmds, MAV_CMD_NAV_RETURN_TO_LAUNCH, n)
        wp == LastIndex(vcmds, MAV_CMD_NAV_WAYPOINT, n)
    IN pc # "i_oracle"
       => /\ OracleStored
          /\ oracle.end_position
               = IF wp > rtl THEN Loc(vcmds[wp].x, vcmds[wp].y, vcmds[wp].z)
                 ELSE Home
          /\ oracle.max_distance = MaxDistanceMm

\* C23: with a speed-up factor above 1 the timer is armed with
\* floor(time_limit / speedup) + 10 seconds, the floor being the q with
\* q * speedup <= time_limit < (q + 1) * speedup; with a factor of 1 or
\* below it is armed with the time limit itself.
C23_DeadlineArmed ==
    LET time_limit == args.limits.time_limit
        speedup == args.limits.speedup
    IN pc = "e_wait_armable"
       => /\ speedup > 1
             => \E q \in 0 .. time_limit :
                  /\ q * speedup <= time_limit
                  /\ time_limit < (q + 1) * speedup
                  /\ alarm_secs = q + 10
          /\ speedup <= 1 => alarm_secs = time_limit

C23_Witness ==
    /\ pc = "e_wait_armable"
    /\ args.limits = [time_limit |-> 300, speedup |-> 10]
    /\ alarm_secs = 40
    /\ alarm = "armed"

\* C24: a call of was_successful that returns has written one CHECK line
\* and read one reply line, and its result is false exactly when the line
\* read contains NO.
C24_WasSuccessful ==
    [][(pc' = "attacker.was_successful" /\ exc' = "none")
       => /\ written' = Append(written, "CHECK")
          /\ checked'.reads = checked.reads + 1
          /\ checked'.result
               = ~(\E i \in DOMAIN checked'.reply :
                     /\ checked'.reply[i] = "N"
                     /\ i + 1 \in DOMAIN checked'.reply
                     /\ checked'.reply[i + 1] = "O")]_vars

C24_Witness ==
    /\ pc = "attacker.was_successful"
    /\ exc = "none"
    /\ checked = [reads |-> 1, reply |-> NoAttackDetected, result |-> FALSE]
    /\ Count(written, "CHECK") = 1

\* C25: the position the distance check uses is the one the handler
\* captured when it handled the terminal event.
C25_DistanceUsesCapturedPosition ==
    pc = "e_distance" => pos_last = h_pos_last

\* C26: an execution goes through issuing, armed and running in that
\* order, each once: the mission is uploaded and synchronized before the
\* vehicle is confirmed armed, the vehicle is armed before the mission is
\* started, and once execute has exited it holds either a verdict or an
\* exception, never both.
C26_MonitorOrder ==
    /\ Occurs("armed") => (Occurs("upload") /\ Occurs("synced"))
    /\ Precedes("upload", "armed")
    /\ Precedes("synced", "armed")
    /\ Precedes("armed", "mission_start")
    /\ \A e \in {"execute", "upload", "synced", "armed", "mission_start"} :
          Count(trace, e) <= 1
    /\ ExecuteExited => ~(ret.set /\ exc # "none")

\* C27: the start command is sent after the vehicle reported armable, armed
\* was confirmed and issue returned, and after the mode switch to AUTO; an
\* execution sends it once, and it names the items 1 to N + 1, N being the
\* number of commands of the Mission.
C27_TriggerAfterArmedAndIssued ==
    /\ start_msgs # << >> => mode = "AUTO"
    /\ mode = "AUTO"
       => /\ Precedes("mode_auto", "mission_start")
          /\ \A e \in {"armable", "armed", "synced"} :
                Occurs(e) /\ Precedes(e, "mode_auto")
    /\ Len(start_msgs) <= 1
    /\ Occurs("subscribe") => Len(start_msgs) = 1
    /\ (mode = "AUTO" \/ start_msgs # << >>)
       => /\ Occurs("mode_auto")
          /\ Occurs("mission_start") <=> start_msgs # << >>
    /\ \A i \in DOMAIN start_msgs :
          start_msgs[i] = [first |-> 1, last |-> Len(args.commands) + 1]

C27_Witness ==
    /\ pc = "done"
    /\ Len(args.commands) = 3
    /\ start_msgs = << [first |-> 1, last |-> 4] >>
    /\ mode = "AUTO"
    /\ ret.set

\* C28: a text event that begins with a reached pattern increments the
\* counter by one and does nothing else; one that begins with a terminal
\* pattern ("Disarming motors" only for ArduCopter) is handled further, and
\* that handling increments the counter by one; any other text changes
\* nothing; only the handling of a terminal pattern sets the
\* mission-complete flag, and the flag is never cleared.
C28_HandlerCounts ==
    [][/\ \A text \in Texts :
            OnWaypoint(text)
            => IF text \in ReachedPrefixes
               THEN /\ actual_num_wps_visited' = actual_num_wps_visited + 1
                    /\ UNCHANGED << mission_complete, hpc >>
               ELSE IF \/ text \in TerminalPrefixes
                       \/ text = "Disarming motors" /\ args.vehicle = "ArduCopter"
               THEN hpc' = "h_incr"
               ELSE UNCHANGED << actual_num_wps_visited, mission_complete, hpc >>
       /\ HandlerIncr => actual_num_wps_visited' = actual_num_wps_visited + 1
       /\ (mission_complete' /\ ~mission_complete) => hpc = "h_flag"
       /\ mission_complete => mission_complete']_vars

\* C29: a check of the wait loop at which the heartbeat is stale ends the
\* execution with the verdict unresponsive-vehicle, also when the
\* mission-complete flag is set at that check.
C29_StaleHeartbeatWinsOverFlag ==
    (pc = "e_finally" /\ exc = "none" /\ ret.set /\ stale_at_exit)
    => ret = Verdict(FALSE, ReasonUnresponsive)

\* C30: a run whose deadline is armed ends, however long the vehicle keeps
\* it waiting, and a run whose deadline expired inside execute ends with
\* the verdict Failed(timeout).
C30_DeadlineEndsTheRun ==
    /\ (alarm = "armed") ~> (pc = "done")
    /\ [](Occurs("SIGALRM in execute")
          => <>(pc = "done" /\ exc = "none"
                /\ ret = Verdict(FALSE, ReasonTimeout)))

\* C31: the runner starts the simulator, then connects the link, then (when
\* an attack is configured) prepares the attacker, in that order; execute
\* begins only after all of these succeeded.
C31_AcquisitionOrder ==
    /\ Precedes("sitl.start", "connect")
    /\ Precedes("connect", "attacker.prepare")
    /\ Occurs("execute")
       => /\ Occurs("sitl.start") /\ Occurs("connect")
          /\ args.attack => Occurs("attacker.connected")
          /\ \A e \in {"sitl.start", "connect", "attacker.prepare",
                        "attacker.connected"} : Precedes(e, "execute")

ControlLines == {"START", "CHECK", "EXIT"}

\* C32: whatever methods of the Attacker are called in whatever order, a
\* step that writes to the control channel writes one line, which is START,
\* CHECK or EXIT, and writes it on a channel that prepare() opened and
\* stop() has not closed; the step that writes EXIT drops the channel, so
\* that EXIT is written at most once on a channel and nothing follows it;
\* a channel is dropped only by the step that writes EXIT, and a dropped
\* channel is replaced only by a prepare() that opens a new one.
C32_ChannelLines ==
    [][/\ written' # written
          => /\ \E line \in ControlLines : written' = Append(written, line)
             /\ attacker.connection = "set"
             /\ (written'[Len(written')] = "EXIT")
                   <=> (attacker'.connection = "None")
       /\ (attacker.connection = "set" /\ attacker'.connection = "None")
          => written' = Append(written, "EXIT")
       /\ (attacker'.connection = "None" /\ written' # << >>)
          => written'[Len(written')] = "EXIT"
       /\ (attacker.connection = "None" /\ attacker'.connection = "set")
          => atk_groups' = Launch(atk_groups)]_vars

C32_Witness ==
    /\ pc = "attacker.stop"
    /\ exc = "none"
    /\ attacker.connection = "None"
    /\ Len(atk_groups) = 2
    /\ written = << "START", "EXIT", "CHECK", "EXIT" >>

\* C33: the distance computed between two positions a and b equals the
\* distance between b and a, is zero when a and b have the same latitude
\* and longitude, and is the same whatever the altitudes of a and b are.
C33_DistanceSymmetric ==
    pc = "e_finally"
    => LET a == oracle.end_position
           b == pos_last
       IN /\ dist = distance(b, a)
          /\ (a.lat = b.lat /\ a.lon = b.lon) => dist = 0
          /\ \A alt_a \in 0 .. MaxCoord, alt_b \in 0 .. MaxCoord :
                dist = distance([a EXCEPT !.alt = alt_a],
                                [b EXCEPT !.alt = alt_b])

C33_Witness ==
    /\ pc = "e_finally"
    /\ oracle.end_position = Loc(0, 2, 1)
    /\ pos_last = Loc(2, 0, 0)
    /\ dist = 2828

\* C34: no reached or terminal event that the vehicle emits after the start
\* command was sent goes unheard because the listener is not subscribed
\* yet: every such event that nothing listened to was emitted after the
\* subscription (and so after the listener was removed again).
C34_NoEventBeforeSubscription ==
    \A i \in DOMAIN trace :
        trace[i] = "event unheard"
        => \E j \in 1 .. (i - 1) : trace[j] = "subscribe"

\* C35: every step of the handler, taken while on_waypoint is subscribed,
\* ends without an exception and leaves a verdict that execute has decided
\* as it is, also when the event is delivered after the counter was
\* unpacked and before the listener is removed.
C35_HandlerNeverFails ==
    [][(Deliver \/ HandlerIncr \/ HandlerPos \/ HandlerFlag)
       => (~handler_error' /\ ret' = ret)]_vars

\* C36: when the mission-complete flag is set, the counter already holds
\* the increment of the terminal event that set it, however the handler's
\* steps interleave with the wait loop: the step that sets the flag is the
\* last of the handling of a terminal event and comes after the step that
\* incremented the counter for that event, so that the counter is at least
\* 1 whenever the flag is set, and so whenever the loop has seen the flag.
C36_FlagAfterIncrement ==
    [][/\ mission_complete' => actual_num_wps_visited' >= 1
       /\ pc' \in {"e_unpack", "e_check_wps", "e_distance"}
          => (mission_complete' /\ actual_num_wps_visited' >= 1)
       /\ (mission_complete' /\ ~mission_complete)
          => (hpc = "h_flag" /\ UNCHANGED actual_num_wps_visited)
       /\ (hpc' = "h_flag" /\ hpc # "h_flag") => hpc = "h_pos"
       /\ (hpc' = "h_pos" /\ hpc # "h_pos")
          => actual_num_wps_visited' = actual_num_wps_visited + 1]_vars

C36_Witness ==
    /\ pc = "e_unpack"
    /\ mission_complete
    /\ actual_num_wps_visited = 1
    /\ hpc = "idle"

C38_VerdictIgnoresCountWhenUnchecked ==
    (~args.check_wps /\ pc = "e_finally" /\ exc = "none" /\ ret.set)
    => ret = IF ~unpacked THEN Verdict(FALSE, ReasonUnresponsive)
             ELSE IF PassesDistance(rev, distance(oracle.end_position, pos_last),
                                    oracle.max_distance)
             THEN Verdict(TRUE, "None")
             ELSE Verdict(FALSE, ReasonTooFar)

C38_Witness ==
    /\ ~args.check_wps
    /\ rev = "th"
    /\ pc = "e_finally"
    /\ exc = "none"
    /\ actual_num_wps_visited = 1
    /\ oracle.num_waypoints_visited = 3
    /\ ret = Verdict(TRUE, "None")

\* C39: a run writes START at most once, and exactly once when an attack
\* is configured and the run goes on to execute the mission; START is
\* written after prepare() has opened the channel and the link is
\* connected, and before execute is entered, the vehicle armed and the
\* mission started; without an attack nothing is written; no run writes
\* CHECK or reads a reply, so that no verdict is made from the result of
\* the attack.
C39_StartOnceBeforeMission ==
    /\ Count(written, "START") <= 1
    /\ Count(written, "START") = Count(trace, "START")
    /\ Occurs("execute") => (Count(written, "START") = 1 <=> args.attack)
    /\ ~args.attack => written = << >>
    /\ IF Occurs("START")
       THEN LET k == CHOOSE i \in DOMAIN trace : trace[i] = "START"
            IN /\ args.attack
               /\ \E i \in 1 .. k : trace[i] = "attacker.connected"
               /\ \E i \in 1 .. k : trace[i] = "connect"
               /\ \A i \in DOMAIN trace :
                     /\ trace[i] \in {"attacker.connected", "connect"} => i < k
                     /\ trace[i] \in {"execute", "armed", "mission_start"}
                        => i > k
       ELSE \A i \in DOMAIN trace :
               trace[i] \notin {"execute", "armed", "mission_start"}
               \/ ~args.attack
    /\ Count(written, "CHECK") = 0
    /\ checked = NoCheck

C39_Witness ==
    /\ pc = "done"
    /\ args.attack
    /\ written = << "START", "EXIT" >>
    /\ Occurs("armed")
    /\ Occurs("mission_start")
    /\ ret = Verdict(TRUE, "None")


=============================================================================
